---- MODULE Spec2Model ----
(***************************************************************************)
(* Model of openai-youtube-summarizer.py: one Streamlit script run takes   *)
(* a video URL, extracts the video identifier, fetches metadata and the    *)
(* transcript and asks the text-generation service for a summary.          *)
(*                                                                         *)
(* Text is modelled by TLA+ strings (sequences of characters).  A Python   *)
(* value that may be None is modelled as a sequence of length 0 (None) or  *)
(* 1 (the value).  The three external services answer nondeterministically *)
(* (an exception or a response drawn from a small set).                    *)
(***************************************************************************)
EXTENDS Integers, Sequences, FiniteSets, TLC

VARIABLES
    api_key,          \* the key typed into the sidebar
    client,           \* the OpenAI client, None without a key
    youtube_url,      \* the URL typed into the text input
    pc,               \* where the script run of main stands
    video_id,         \* main's video_id
    data,             \* get_video_info's data: the JSON of the metadata service
    video_info,       \* main's video_info
    transcript_list,  \* get_transcript's transcript_list: the caption fragments
    transcript,       \* main's transcript
    summary,          \* main's summary
    errors,           \* the st.error messages of this run, in order
    calls,            \* the calls made to the external services in this run, in order
    shown,            \* what the page shows below the input
    downloads         \* the download buttons of the page

vars == <<api_key, client, youtube_url, pc, video_id, data, video_info,
          transcript_list, transcript, summary, errors, calls, shown, downloads>>

----------------------------------------------------------------------------
(* Bounds of the model *)

\* largest number of caption fragments the captions service returns
MaxFragments == 3
\* length of the long caption fragment
BigLen == 3999

----------------------------------------------------------------------------
(* Python values *)

None == <<>>
Some(v) == <<v>>

\* truthiness of a str-or-None value: None and "" are false
TruthyStr(o) == o # None /\ Len(o[1]) > 0

\* truthiness of a dict-or-None / object-or-None value: None and {} are false
TruthyObj(o) == o # None /\ DOMAIN o[1] # {}

\* str(x) as an f-string formats it: None prints as "None"
Str(o) == IF o = None THEN "None" ELSE o[1]

\* s[:n] for n >= 0
SliceTo(s, n) == SubSeq(s, 1, IF Len(s) < n THEN Len(s) ELSE n)

\* dict.get(key, default)
DictGet(d, key, default) == IF key \in DOMAIN d THEN d[key] ELSE default

\* the empty dict {}
EmptyDict == [k \in {} |-> ""]

Min(S) == CHOOSE x \in S : \A y \in S : x <= y

RECURSIVE Rep(_, _)
\* the string s repeated n times
Rep(s, n) == IF n = 0 THEN ""
             ELSE IF n % 2 = 0 THEN LET h == Rep(s, n \div 2) IN h \o h
             ELSE s \o Rep(s, n - 1)

----------------------------------------------------------------------------
(* extract_video_id *)

\* the alternatives of the non-capturing group, in the pattern's order
Prefixes == <<"youtube.com/watch?v=", "youtu.be/", "youtube.com/embed/">>

\* a capture group that forgets the fragment separator
StopCharsNoHash == {"&", "\n", "?"}

\* the characters the capture group [^&\n?#]+ excludes
StopChars == {"&", "\n", "?", "#"}

CharAt(s, i) == SubSeq(s, i, i)

\* the literal p occurs in url at position i
LiteralAt(url, i, p) ==
    /\ i + Len(p) - 1 <= Len(url)
    /\ SubSeq(url, i, i + Len(p) - 1) = p

\* the alternatives that match at i and are followed by at least one
\* character the capture group accepts
AltsAt(url, i) ==
    {a \in DOMAIN Prefixes :
        /\ LiteralAt(url, i, Prefixes[a])
        /\ i + Len(Prefixes[a]) <= Len(url)
        /\ CharAt(url, i + Len(Prefixes[a])) \notin StopChars}

\* the greedy capture starting at j: the last position of the run of
\* accepted characters
CaptureEnd(url, j) ==
    LET stops == {k \in j..Len(url) : CharAt(url, k) \in StopChars}
    IN  IF stops = {} THEN Len(url) ELSE Min(stops) - 1

\* re.search: the leftmost position with a match, the first alternative there
extract_video_id(url) ==
    LET starts == {i \in 1..Len(url) : AltsAt(url, i) # {}}
    IN  IF starts = {} THEN None
        ELSE LET i == Min(starts)
                 a == Min(AltsAt(url, i))
                 j == i + Len(Prefixes[a])
             IN  Some(SubSeq(url, j, CaptureEnd(url, j)))

----------------------------------------------------------------------------
(* get_video_info *)

UnknownTitle == "Unknown Title"
UnknownAuthor == "Unknown Author"

InfoUrl(vid) == "https://noembed.com/embed?url=https://www.youtube.com/watch?v=" \o Str(vid)

\* a thumbnail taken from the response when it offers one
ThumbnailFromData(vid, d) ==
    DictGet(d, "thumbnail_url", "https://img.youtube.com/vi/" \o Str(vid) \o "/maxresdefault.jpg")

Thumbnail(vid, d) == "https://img.youtube.com/vi/" \o Str(vid) \o "/maxresdefault.jpg"

InfoDict(vid, d) ==
    [title |-> DictGet(d, "title", UnknownTitle),
     author |-> DictGet(d, "author_name", UnknownAuthor),
     thumbnail |-> Thumbnail(vid, d)]

InfoError(e) == "Error fetching video info: " \o e

\* the result and the st.error messages of get_video_info, given what
\* requests.get / response.json did
get_video_info(vid, outcome) ==
    IF outcome.raises
    THEN [data |-> None, ret |-> None, err |-> <<InfoError(outcome.e)>>]
    ELSE [data |-> Some(outcome.data), ret |-> Some(InfoDict(vid, outcome.data)),
          err |-> <<>>]

----------------------------------------------------------------------------
(* get_transcript *)

RECURSIVE JoinReversed(_, _)
\* a join that puts the fragments in reverse order
JoinReversed(sep, texts) ==
    IF Len(texts) = 0 THEN ""
    ELSE IF Len(texts) = 1 THEN texts[1]
    ELSE JoinReversed(sep, Tail(texts)) \o sep \o texts[1]

RECURSIVE Join(_, _)
\* sep.join(texts)
Join(sep, texts) ==
    IF Len(texts) = 0 THEN ""
    ELSE IF Len(texts) = 1 THEN texts[1]
    ELSE texts[1] \o sep \o Join(sep, Tail(texts))

\* [item['text'] for item in transcript_list]
Texts(items) == [i \in 1..Len(items) |-> items[i].text]

\* an error message that names the cause
TranscriptErrorCause(e) == "Could not fetch transcript: " \o e

TranscriptError(e) == "Could not fetch transcript. Please ensure the video has English subtitles."

get_transcript(vid, outcome) ==
    IF outcome.raises
    THEN [list |-> None, ret |-> None, err |-> <<TranscriptError(outcome.e)>>]
    ELSE [list |-> Some(outcome.list), ret |-> Some(Join(" ", Texts(outcome.list))),
          err |-> <<>>]

----------------------------------------------------------------------------
(* generate_summary *)

\* the character budget of the transcript in the user message
TranscriptLimit == 4000

\* the fixed user instruction (its text is abbreviated)
Prompt == "\nBased on a YouTube transcript, write an eye-catching article ...\n"

\* a user message that carries the whole transcript
UserContentWhole(t) == Prompt \o "\n\nTranscript:\n" \o Str(t)

UserContent(t) == Prompt \o "\n\nTranscript:\n" \o SliceTo(Str(t), TranscriptLimit)

KeyError == "Please provide a valid OpenAI API key."

SummaryError(e) == "Error generating summary: " \o e

\* a generator that does not look at the client
HaveClientAlways(c) == TRUE

\* line 126: if client
HaveClient(c) == TruthyObj(c)

\* the requests made, the result and the st.error messages of
\* generate_summary, given what client.chat.completions.create did
generate_summary(t, c, outcome) ==
    IF HaveClient(c)
    THEN IF outcome.raises
         THEN [sent |-> <<UserContent(t)>>, ret |-> None,
               err |-> <<SummaryError(outcome.e)>>]
         ELSE [sent |-> <<UserContent(t)>>, ret |-> Some(outcome.content),
               err |-> <<>>]
    ELSE [sent |-> <<>>, ret |-> None, err |-> <<KeyError>>]

----------------------------------------------------------------------------
(* main *)

InvalidUrlError == "Invalid YouTube URL. Please check the URL and try again."

\* line 153: if youtube_url
HaveUrl(url) == Len(url) > 0

\* line 156: if not video_id
NoVideoId(vid) == ~TruthyStr(vid)

\* line 164: if video_info
HaveInfo(info) == TruthyObj(info)

\* a test for None only: if transcript is not None
HaveTranscriptNotNone(t) == t # None

\* line 182: if transcript
HaveTranscript(t) == TruthyStr(t)

\* line 186: if summary
HaveSummary(s) == TruthyStr(s)

\* a main that does not return after the invalid-URL error
AfterExtractAlways(vid) == "get_video_info"

\* lines 156-160: where main goes after extract_video_id
AfterExtract(vid) == IF NoVideoId(vid) THEN "done" ELSE "get_video_info"

\* a main that fetches the transcript outside "if video_info"
AfterInfoAlways(info) == "get_transcript"

\* lines 164 and 181: where main goes after get_video_info
AfterInfo(info) == IF HaveInfo(info) THEN "get_transcript" ELSE "done"

\* a main that fetches the transcript again when it got none
AfterTranscriptRetry(t) == IF HaveTranscript(t) THEN "generate_summary" ELSE "get_transcript"

\* lines 182-184: where main goes after get_transcript
AfterTranscript(t) == IF HaveTranscript(t) THEN "generate_summary" ELSE "done"

\* a call to an external service
Call(service, arg) == [service |-> service, arg |-> arg]

\* lines 166-178: thumbnail and video-container block
InfoBlock(info) ==
    <<[kind |-> "image", body |-> info.thumbnail],
      [kind |-> "video-container",
       body |-> "<h2>" \o info.title \o "</h2><p>Creator: " \o info.author \o "</p>"]>>

\* lines 188-194 and 214-216: summary, transcript expander, share link
SummaryBlock(s, t, info, url) ==
    <<[kind |-> "summary-section", body |-> s],
      [kind |-> "transcript", body |-> t],
      [kind |-> "share", body |-> "Video: [" \o info.title \o "](" \o url \o ")"]>>

\* lines 197-211: the two download buttons
DownloadButtons(s, t, vid) ==
    <<[data |-> s, file_name |-> "summary_" \o vid \o ".md", mime |-> "text/markdown"],
      [data |-> t, file_name |-> "transcript_" \o vid \o ".txt", mime |-> "text/plain"]>>

----------------------------------------------------------------------------
(* Inputs and service responses *)

\* the URLs a script run of the whole pipeline is given
Urls ==
    {"https://www.youtube.com/watch?v=abc123&t=5s", "https://youtu.be/abc123",
     "https://www.youtube.com/embed/abc123?rel=0", "youtu.be/x/y z#top",
     "", "hello", "https://www.youtube.com/watch?v=&t=5s",
     "https://www.youtube.com/shorts/abc123"}

\* the URLs the identifier extractor is exercised on
Schemes == {"", "https://www.", "https://"}
Rests ==
    {id \o t : id \in {"abc123", "x/y z", "-_9", ""},
               t \in {"", "&t=5s", "?si=k", "#top", "\nz", "&a#b?c"}}

ShapeUrl(s, a, rest) == s \o Prefixes[a] \o rest

RecognizedUrls ==
    {ShapeUrl(s, a, rest) : s \in Schemes, a \in DOMAIN Prefixes, rest \in Rests}

OtherUrls ==
    {"", "hello", "https://vimeo.com/123", "https://www.youtube.com/",
     "https://youtu.be/", "https://www.youtube.com/watch?v=&t=5s",
     "https://www.youtube.com/watch?list=1&v=abc123",
     "https://www.youtube.com/shorts/abc123", "https://youtube,com/embed/abc123",
     "https://youtu.be/#abc123", "https://youtu.be/?v=youtube.com/embed/q1&x"}

ExtractUrls == RecognizedUrls \cup OtherUrls

ApiKeys == {"", "sk-1"}

InfoOutcomes ==
    {[raises |-> TRUE, e |-> e, data |-> EmptyDict] :
        e \in {"Connection refused", "Expecting value: line 1 column 1 (char 0)"}}
    \cup
    {[raises |-> FALSE, e |-> "", data |-> d] :
        d \in {EmptyDict,
               [title |-> "My Video"],
               [author_name |-> "Ann"],
               [title |-> "My Video", author_name |-> "Ann",
                thumbnail_url |-> "https://i.ytimg.com/vi/other/hqdefault.jpg"]}}

Big == SliceTo(Rep("0123456789", BigLen \div 10 + 1), BigLen)

FragmentTexts == {"", "Hello", "world", Big}

Fragments == {[text |-> s] : s \in FragmentTexts}

FragmentLists == UNION {[1..n -> Fragments] : n \in 0..MaxFragments}

TranscriptOutcomes ==
    {[raises |-> TRUE, e |-> e, list |-> <<>>] :
        e \in {"NoTranscriptFound", "TranscriptsDisabled", "ConnectionError"}}
    \cup
    {[raises |-> FALSE, e |-> "", list |-> l] : l \in FragmentLists}

SummaryOutcomes ==
    {[raises |-> TRUE, e |-> e, content |-> ""] :
        e \in {"Rate limit reached", "Connection error."}}
    \cup
    {[raises |-> FALSE, e |-> "", content |-> c] : c \in {"", "# Why?"}}

----------------------------------------------------------------------------
(* The state machine *)

\* the script has run once with no key and no URL entered
Init ==
    /\ api_key = ""
    /\ client = None
    /\ youtube_url = ""
    /\ pc = "done"
    /\ video_id = None
    /\ data = None
    /\ video_info = None
    /\ transcript_list = None
    /\ transcript = None
    /\ summary = None
    /\ errors = <<>>
    /\ calls = <<>>
    /\ shown = <<>>
    /\ downloads = <<>>

\* lines 71-78 and 150-158: a script run reads the key and the URL,
\* builds the client and extracts the identifier
Rerun(key, url) ==
    /\ pc = "done"
    /\ api_key' = key
    /\ client' = IF Len(key) > 0 THEN Some([api_key |-> key]) ELSE None
    /\ youtube_url' = url
    /\ data' = None
    /\ video_info' = None
    /\ transcript_list' = None
    /\ transcript' = None
    /\ summary' = None
    /\ calls' = <<>>
    /\ shown' = <<>>
    /\ downloads' = <<>>
    /\ IF HaveUrl(url)
       THEN /\ video_id' = extract_video_id(url)
            /\ errors' = IF NoVideoId(video_id') THEN <<InvalidUrlError>> ELSE <<>>
            /\ pc' = AfterExtract(video_id')
       ELSE video_id' = None /\ errors' = <<>> /\ pc' = "done"

\* lines 162-178
GetVideoInfo(outcome) ==
    /\ pc = "get_video_info"
    /\ LET r == get_video_info(video_id, outcome)
       IN  /\ calls' = Append(calls, Call("noembed", InfoUrl(video_id)))
           /\ data' = r.data
           /\ video_info' = r.ret
           /\ errors' = errors \o r.err
           /\ shown' = IF HaveInfo(r.ret) THEN shown \o InfoBlock(r.ret[1]) ELSE shown
           /\ pc' = AfterInfo(r.ret)
    /\ UNCHANGED <<api_key, client, youtube_url, video_id, transcript_list, transcript,
                   summary, downloads>>

\* lines 181-182
GetTranscript(outcome) ==
    /\ pc = "get_transcript"
    /\ LET r == get_transcript(video_id, outcome)
       IN  /\ calls' = Append(calls, Call("captions", Str(video_id)))
           /\ transcript_list' = r.list
           /\ transcript' = r.ret
           /\ errors' = errors \o r.err
           /\ pc' = AfterTranscript(r.ret)
    /\ UNCHANGED <<api_key, client, youtube_url, video_id, data, video_info, summary,
                   shown, downloads>>

\* lines 184-216
GenerateSummary(outcome) ==
    /\ pc = "generate_summary"
    /\ LET r == generate_summary(transcript, client, outcome)
       IN  /\ calls' = calls \o [i \in 1..Len(r.sent) |-> Call("openai", r.sent[i])]
           /\ summary' = r.ret
           /\ errors' = errors \o r.err
           /\ IF HaveSummary(r.ret)
              THEN /\ shown' = shown \o SummaryBlock(r.ret[1], transcript[1],
                                                     video_info[1], youtube_url)
                   /\ downloads' = DownloadButtons(r.ret[1], transcript[1], video_id[1])
              ELSE UNCHANGED <<shown, downloads>>
    /\ pc' = "done"
    /\ UNCHANGED <<api_key, client, youtube_url, video_id, data, video_info,
                   transcript_list, transcript>>

Next ==
    \/ \E key \in ApiKeys, url \in Urls : Rerun(key, url)
    \/ \E outcome \in InfoOutcomes : GetVideoInfo(outcome)
    \/ \E outcome \in TranscriptOutcomes : GetTranscript(outcome)
    \/ \E outcome \in SummaryOutcomes : GenerateSummary(outcome)

Spec == Init /\ [][Next]_vars

\* script runs that exercise the identifier extractor on many URLs; the
\* pipeline behind it is left to Spec
NextExtract == \E key \in ApiKeys, url \in ExtractUrls : Rerun(key, url)

SpecExtract == Init /\ [][NextExtract]_vars

----------------------------------------------------------------------------
(* Properties *)

\* the calls made to one service in this run
CallsTo(service) == {i \in 1..Len(calls) : calls[i].service = service}

\* C1: a non-empty URL in which the pattern finds no identifier ends the run
\* with the invalid-URL message, and no metadata fetch, transcript fetch or
\* summary generation is attempted in that run.
C1_InvalidUrlHalts ==
    (Len(youtube_url) > 0 /\ extract_video_id(youtube_url) = None) =>
        /\ pc = "done"
        /\ errors = <<"Invalid YouTube URL. Please check the URL and try again.">>
        /\ calls = <<>>
        /\ video_info = None /\ transcript = None /\ summary = None
        /\ shown = <<>> /\ downloads = <<>>

C1_Witness ==
    /\ youtube_url = "https://www.youtube.com/shorts/abc123"
    /\ video_id = None
    /\ errors # <<>>

\* C2: when the metadata fetch raised, the run has ended with its error
\* message and made neither the transcript fetch nor the generation call.
C2_InfoFailureHalts ==
    (CallsTo("noembed") # {} /\ data = None) =>
        /\ pc = "done"
        /\ video_info = None
        /\ Len(errors) = 1
        /\ SubSeq(errors[1], 1, 27) = "Error fetching video info: "
        /\ CallsTo("captions") = {} /\ CallsTo("openai") = {}
        /\ transcript = None /\ summary = None /\ downloads = <<>>

C2_Witness ==
    /\ CallsTo("noembed") # {}
    /\ data = None
    /\ errors = <<"Error fetching video info: Connection refused">>

\* C3: when the captions service raised, whatever the cause, the run has
\* ended with the one fixed transcript error message and made no generation
\* call.
C3_TranscriptFailureUniform ==
    (CallsTo("captions") # {} /\ transcript_list = None) =>
        /\ pc = "done"
        /\ transcript = None
        /\ errors = <<"Could not fetch transcript. Please ensure the video has English subtitles.">>
        /\ CallsTo("openai") = {}
        /\ summary = None /\ downloads = <<>>

C3_Witness ==
    /\ CallsTo("captions") # {}
    /\ transcript_list = None
    /\ Len(errors) = 1

\* C4: without a credential (client is None), generate_summary, for every
\* transcript it is given, reports the missing-key error and returns None
\* without calling the text-generation service.
C4_NoClientNoCall ==
    (client = None /\ pc = "done" /\ transcript # None /\ Len(transcript[1]) > 0) =>
        /\ CallsTo("openai") = {}
        /\ summary = None
        /\ errors = <<"Please provide a valid OpenAI API key.">>
        /\ downloads = <<>>

C4_Witness ==
    /\ client = None
    /\ pc = "done"
    /\ transcript = <<"Hello world">>
    /\ Len(errors) = 1

\* the text a user message carries after the prompt and the transcript header
AfterPrompt(content) ==
    LET head == Prompt \o "\n\nTranscript:\n"
    IN  IF Len(content) >= Len(head) /\ SubSeq(content, 1, Len(head)) = head
        THEN <<SubSeq(content, Len(head) + 1, Len(content))>>
        ELSE <<>>

\* C5: the text submitted to the generator after the fixed prompt is the
\* transcript's first 4000 characters, unchanged and in order, when the
\* transcript is longer than 4000 characters, and the whole transcript
\* otherwise.
C5_Truncation ==
    \A i \in CallsTo("openai") :
        LET sent == AfterPrompt(calls[i].arg)
            t == transcript[1]
        IN  /\ sent # <<>>
            /\ IF Len(t) > 4000
               THEN /\ Len(sent[1]) = 4000
                    /\ t = sent[1] \o SubSeq(t, 4001, Len(t))
               ELSE sent[1] = t

C5_Witness ==
    /\ CallsTo("openai") # {}
    /\ Len(transcript[1]) > 4000

\* the position in the transcript at which the text of fragment i starts
RECURSIVE Offset(_, _)
Offset(items, i) ==
    IF i = 1 THEN 1 ELSE Offset(items, i - 1) + Len(items[i - 1].text) + 1

\* C6: the transcript holds the text of every fragment the captions service
\* returned, in list order, with exactly one space between consecutive
\* fragments and nothing else; the fragments Hello, world give "Hello world".
C6_SpaceJoined ==
    transcript_list # None =>
        LET items == transcript_list[1]
            n == Len(items)
            t == transcript[1]
        IN  /\ transcript # None
            /\ Len(t) = IF n = 0 THEN 0 ELSE Offset(items, n) + Len(items[n].text) - 1
            /\ \A i \in 1..n :
                 SubSeq(t, Offset(items, i), Offset(items, i) + Len(items[i].text) - 1)
                     = items[i].text
            /\ \A i \in 2..n : SubSeq(t, Offset(items, i) - 1, Offset(items, i) - 1) = " "
            /\ (items = <<[text |-> "Hello"], [text |-> "world"]>> => t = "Hello world")

C6_Witness ==
    /\ transcript_list = <<(<<[text |-> "Hello"], [text |-> "world"], [text |-> "Hello"]>>)>>
    /\ transcript = <<"Hello world Hello">>

\* the identifier a recognized URL carries: what follows the prefix up to the
\* first '&', newline, '?' or '#'
IdOf(rest) ==
    LET n == CHOOSE n \in 0..Len(rest) :
                 /\ \A k \in 1..n : SubSeq(rest, k, k) \notin {"&", "\n", "?", "#"}
                 /\ n = Len(rest) \/ SubSeq(rest, n + 1, n + 1) \in {"&", "\n", "?", "#"}
    IN  IF n = 0 THEN <<>> ELSE <<SubSeq(rest, 1, n)>>

\* C7: a watch link, a short link and an embed link with the same text after
\* the prefix give the same identifier: the text after the prefix up to the
\* first '&', newline, '?' or '#'; watch?v=abc123&t=5s and youtu.be/abc123
\* both give abc123.
C7_SameIdAllShapes ==
    /\ \A s \in Schemes, a \in DOMAIN Prefixes, rest \in Rests :
         youtube_url = s \o Prefixes[a] \o rest => video_id = IdOf(rest)
    /\ youtube_url = "https://www.youtube.com/watch?v=abc123&t=5s" => video_id = <<"abc123">>
    /\ youtube_url = "https://youtu.be/abc123" => video_id = <<"abc123">>

C7_Witness ==
    /\ youtube_url = "https://www.youtube.com/embed/abc123#top"
    /\ video_id = <<"abc123">>

\* C8: after a successful metadata response the video information holds the
\* response's title and author_name where present and "Unknown Title" /
\* "Unknown Author" where absent, and the thumbnail is built from the
\* identifier alone; the response {} gives both placeholders.
C8_InfoDefaults ==
    data # None =>
        /\ video_info # None
        /\ video_info[1].title =
               IF "title" \in DOMAIN data[1] THEN data[1].title ELSE "Unknown Title"
        /\ video_info[1].author =
               IF "author_name" \in DOMAIN data[1] THEN data[1].author_name
               ELSE "Unknown Author"
        /\ video_info[1].thumbnail =
               "https://img.youtube.com/vi/" \o video_id[1] \o "/maxresdefault.jpg"
        /\ (data[1] = EmptyDict /\ video_id = <<"abc123">> =>
               video_info[1] =
                   [title |-> "Unknown Title", author |-> "Unknown Author",
                    thumbnail |-> "https://img.youtube.com/vi/abc123/maxresdefault.jpg"])

C8_Witness ==
    /\ data # None
    /\ "thumbnail_url" \in DOMAIN data[1]
    /\ video_info # None
    /\ video_info[1].title = "My Video"

\* the order of the external calls of one run
CallOrder == <<"noembed", "captions", "openai">>

C9_Ordered ==
    /\ Len(calls) <= 3
    /\ \A i \in 1..Len(calls) : calls[i].service = CallOrder[i]
    /\ Len(calls) >= 2 => video_info # None
    /\ Len(calls) >= 3 => transcript # None
    /\ errors # <<>> => (pc = "done" /\ Len(errors) = 1)

C9_Step ==
    \/ calls' = calls
    \/ pc = "done" /\ calls' = <<>>
    \/ /\ errors = <<>>
       /\ pc # "done"
       /\ Len(calls') = Len(calls) + 1
       /\ SubSeq(calls', 1, Len(calls)) = calls

\* C9: within one run the external calls are the metadata fetch, then the
\* transcript fetch, then the summary generation, each made at most once and
\* only after the previous one returned a result; an error ends the run, so
\* no call follows an error until a new run starts.
C9_SequentialNoRetry == [](C9_Ordered) /\ [][C9_Step]_vars

C9_Witness ==
    /\ Len(calls) = 3
    /\ errors = <<"Error generating summary: Rate limit reached">>
    /\ pc = "done"

\* C10: the summary and the download buttons summary_<id>.md and
\* transcript_<id>.txt are on the page only when the identifier, the
\* metadata, the transcript and the summary are all non-empty; an empty
\* transcript ends the run with no generation call and no error message, and
\* an empty completion ends it with nothing presented.
C10_ArtifactsOnlyOnSuccess ==
    /\ (downloads # <<>> \/ \E i \in 1..Len(shown) : shown[i].kind = "summary-section") =>
         /\ video_id # None /\ Len(video_id[1]) > 0
         /\ video_info # None
         /\ transcript # None /\ Len(transcript[1]) > 0
         /\ summary # None /\ Len(summary[1]) > 0
         /\ Len(downloads) = 2
         /\ downloads[1].file_name = "summary_" \o video_id[1] \o ".md"
         /\ downloads[1].data = summary[1]
         /\ downloads[2].file_name = "transcript_" \o video_id[1] \o ".txt"
         /\ downloads[2].data = transcript[1]
    /\ transcript = <<"">> =>
         /\ pc = "done"
         /\ CallsTo("openai") = {}
         /\ errors = <<>>
         /\ summary = None /\ downloads = <<>>
    /\ summary = <<"">> =>
         /\ pc = "done"
         /\ downloads = <<>>
         /\ \A i \in 1..Len(shown) : shown[i].kind # "summary-section"

C10_Witness ==
    /\ transcript_list = <<(<<[text |-> ""]>>)>>
    /\ transcript = <<"">>
    /\ pc = "done"

====
